---- MODULE Spec2Model ----
(***************************************************************************)
(* A model of offkey: the threshold evaluator, the bucket query builder    *)
(* and result tabulator, the flattener, the polling cycle of main() and    *)
(* the Ticker.                                                             *)
(*                                                                         *)
(* Conventions.  A Python value that may be None is a sequence of length   *)
(* at most one: <<>> is None and <<x>> is the value x.  Numbers are        *)
(* integers; str(n) is ToString(n).  A Python dict whose iteration order   *)
(* matters is a sequence of <<key, value>> pairs in insertion order.       *)
(***************************************************************************)
EXTENDS Integers, Sequences, FiniteSets, TLC

VARIABLES
    t_val,      \* _check_val_against_thresh: the argument val
    t_cfg,      \* _check_val_against_thresh: the argument thresh_config
    t_res,      \* _check_val_against_thresh: what the call gave
    t_pc,       \* "call" before the call, "done" after it
    f_obj,      \* flatten: the argument o
    f_res,      \* flatten: what iterating the generator to its end gave
    f_pc,       \* "call" before the iteration, "done" after it
    q_args,     \* the arguments of build_bucket_search
    q_search,   \* what build_bucket_search gave
    q_store,    \* the metrics store's answer: rows and aggregate values
    q_raw,      \* the raw result tree of Search.execute()
    q_table,    \* what build_result_buckets gave
    q_pc,       \* "build", "execute", "tabulate", "done" or "failed"
    CONFIGS,    \* main: the metric groups
    m_g,        \* main: the position in CONFIGS of the group at hand
    m_pc,       \* main: "query", "leaf", "done" or "crashed"
    m_exc,      \* main: the exception that ended it, "" when none
    m_now,      \* main: the reading of the clock
    m_table,    \* main: t, the tabulated result of the group at hand
    m_leaves,   \* main: what flatten(t) yields, in order
    m_i,        \* main: the position in m_leaves of the next leaf
    m_counts,   \* the number of leaves of each group queried so far
    m_sent,     \* the calls of requests.post so far, each with its leaf
    m_printed,  \* the response bodies printed after a failed status
    k_start_time, \* Ticker: __start_time
    k_period,   \* Ticker: __period
    k_ticks,    \* Ticker: __ticks
    k_canceled, \* Ticker: __canceled
    k_time,     \* the reading of the event loop's clock
    k_pc,       \* each task's place in __anext__: "idle" or "sleep"
    k_wake,     \* each sleeping task's wake-up time
    k_out,      \* how each task's last finished __anext__ ended, if any
    k_atCancel  \* __ticks when cancel() first ran, None before

t_vars == <<t_val, t_cfg, t_res, t_pc>>

f_vars == <<f_obj, f_res, f_pc>>

q_vars == <<q_args, q_search, q_store, q_raw, q_table, q_pc>>

m_vars == <<CONFIGS, m_g, m_pc, m_exc, m_now, m_table, m_leaves, m_i,
            m_counts, m_sent, m_printed>>

k_vars == <<k_start_time, k_period, k_ticks, k_canceled, k_time, k_pc,
            k_wake, k_out, k_atCancel>>

vars == <<t_val, t_cfg, t_res, t_pc, f_obj, f_res, f_pc,
          q_args, q_search, q_store, q_raw, q_table, q_pc,
          CONFIGS, m_g, m_pc, m_exc, m_now, m_table, m_leaves, m_i,
          m_counts, m_sent, m_printed,
          k_start_time, k_period, k_ticks, k_canceled, k_time, k_pc,
          k_wake, k_out, k_atCancel>>

----------------------------------------------------------------------------
(* Bounds *)

\* thresholds are drawn from 0..MaxThresh, values from -1..MaxThresh+1
MaxThresh == 3

\* a metric spec drawn for build_bucket_search has at most MaxSpecLen pieces
MaxSpecLen == 3

\* the metrics store answers a query with at most MaxRows series
MaxRows == 2

\* the mappings and sequences given to flatten hold at most MaxWidth items
MaxWidth == 2

\* the depth of generator frames at which the interpreter raises
\* RecursionError (sys.getrecursionlimit(), scaled down); the structures of
\* the model are shallower
RecursionLimit == 8

\* the event loop's clock runs from 0 to MaxTime
MaxTime == 4

\* the number of tasks iterating over the one Ticker
NumTasks == 2

----------------------------------------------------------------------------
(* Python None and optional values *)

None == <<>>

Some(x) == <<x>>

IsNone(o) == o = <<>>

Get(o) == o[1]

\* the str() of a severity or diagnostic that is None
NoneStr == "None"

----------------------------------------------------------------------------
(* Python objects.  A str is a tuple of pieces: "." and ":" are pieces of  *)
(* their own and any other piece is a run of characters holding neither.  *)
(* An int is an integer, a dict a tuple of <<key, value>> pairs in         *)
(* insertion order, a list or tuple a tuple of objects.                    *)

StrObj(s) == [k |-> "str", v |-> s]

NumObj(n) == [k |-> "num", v |-> n]

NoneObj == [k |-> "none", v |-> <<>>]

MapObj(items) == [k |-> "map", v |-> items]

SeqObj(items) == [k |-> "seq", v |-> items]

\* the value of a leaf as the evaluator takes it: None or a number
AsOptNum(o) == IF o.k = "none" THEN None ELSE Some(o.v)

----------------------------------------------------------------------------
(* util.py: the flattener *)

FlatResult(status, out) == [status |-> status, out |-> out]

\* util.py:92-97: the (path component, child) pairs a container is iterated
\* as.  isinstance(o, Sequence) holds of a str, whose items are its
\* one-character strs
FlatItemsNoStr(o) ==
    IF o.k = "map" THEN [i \in 1..Len(o.v) |-> <<o.v[i][1], o.v[i][2]>>]
    ELSE [i \in 1..Len(o.v) |-> <<NumObj(i - 1), o.v[i]>>]

FlatItems(o) ==
    IF o.k = "map" THEN [i \in 1..Len(o.v) |-> <<o.v[i][1], o.v[i][2]>>]
    ELSE IF o.k = "seq" THEN [i \in 1..Len(o.v) |-> <<NumObj(i - 1), o.v[i]>>]
    ELSE [i \in 1..Len(o.v) |-> <<NumObj(i - 1), StrObj(<<o.v[i]>>)>>]

\* util.py:92,95: whether o is a Mapping or a Sequence
IsContainer(o) == o.k \in {"map", "seq", "str"}

\* util.py:91-99: the pairs the generator yields, in order, and how the
\* iteration ended: "ok", or "RecursionError" once the frames nest deeper
\* than RecursionLimit
RECURSIVE _flatten(_, _, _), FlattenEach(_, _, _, _)
_flatten(pfx, o, depth) ==
    IF depth > RecursionLimit THEN FlatResult("RecursionError", <<>>)
    ELSE IF IsContainer(o) THEN FlattenEach(pfx, FlatItems(o), 1, depth)
    ELSE FlatResult("ok", << <<pfx, o>> >>)

FlattenEach(pfx, items, i, depth) ==
    IF i > Len(items) THEN FlatResult("ok", <<>>)
    ELSE LET r == _flatten(pfx \o <<items[i][1]>>, items[i][2], depth + 1)
         IN  IF r.status # "ok" THEN r
             ELSE LET rest == FlattenEach(pfx, items, i + 1, depth)
                  IN  FlatResult(rest.status, r.out \o rest.out)

\* util.py:86-88
flatten(o) == _flatten(<<>>, o, 1)

----------------------------------------------------------------------------
(* cli.py: the threshold evaluator *)

\* the levels, in the order the for loop of cli.py:143 reads them
Levels == <<"info", "warning", "error", "critical">>

LevelSet == {Levels[i] : i \in 1..Len(Levels)}

strictly_increasing(L) == \A i \in 1..(Len(L) - 1) : L[i] < L[i + 1]

strictly_decreasing(L) == \A i \in 1..(Len(L) - 1) : L[i] > L[i + 1]

\* cli.py:142-146: the (level, thresh) pairs whose threshold is not None
RECURSIVE BuildTl(_, _)
BuildTl(thresh_config, i) ==
    IF i > Len(Levels) THEN <<>>
    ELSE LET thresh == thresh_config[Levels[i]]
         IN  (IF IsNone(thresh) THEN <<>> ELSE << <<Levels[i], Get(thresh)>> >>)
             \o BuildTl(thresh_config, i + 1)

\* cli.py:161: the condition under which the walk breaks; val and thresh
\* are numbers
BreakCondLE(si, val, thresh) == (si /\ val <= thresh) \/ (~si /\ val >= thresh)

BreakCondAsc(si, val, thresh) == val < thresh

BreakCond(si, val, thresh) == (si /\ val < thresh) \/ (~si /\ val > thresh)

\* cli.py:158-163: the walk from position i with the match so far;
\* gives <<severity, ref>> with ref None when nothing matched
RECURSIVE Walk(_, _, _, _, _, _)
Walk(tl, i, si, val, severity, ref) ==
    IF i > Len(tl) THEN <<severity, ref>>
    ELSE IF BreakCond(si, val, tl[i][2]) THEN <<severity, ref>>
    ELSE Walk(tl, i + 1, si, val, tl[i][1], Some(tl[i][2]))

Returned(severity, diag) ==
    [status |-> "return", severity |-> severity, diag |-> diag]

Raised(exc) == [status |-> exc, severity |-> NoneStr, diag |-> NoneStr]

\* cli.py:141-170.  val is an optional number: the comparison of None with a
\* number at line 161 raises TypeError
_check_val_against_thresh(val, thresh_config) ==
    LET tl  == BuildTl(thresh_config, 1)
        tvs == [i \in 1..Len(tl) |-> tl[i][2]]
        si  == strictly_increasing(tvs)
        sd  == strictly_decreasing(tvs)
    IN  IF tl = <<>> THEN Returned(NoneStr, NoneStr)
        ELSE IF ~(si \/ sd) THEN Raised("AssertionError")
        ELSE IF IsNone(val) THEN Raised("TypeError")
        ELSE LET w == Walk(tl, 1, si, Get(val), NoneStr, None)
             IN  IF w[1] = NoneStr THEN Returned(NoneStr, NoneStr)
                 ELSE IF si
                      THEN Returned(w[1], ToString(Get(val)) \o " >= "
                                          \o ToString(Get(w[2])))
                      ELSE Returned(w[1], ToString(Get(val)) \o " <= "
                                          \o ToString(Get(w[2])))

----------------------------------------------------------------------------
(* metrics.py: the query builder and the result tabulator *)

\* metrics.py:103
DEFAULT_AGG == <<"avg">>

\* metrics.py:106
DEFAULT_WINDOW == 300

\* s.startswith('.')
StartsWithDot(s) == s # <<>> /\ s[1] = "."

\* the positions of the piece sep in s
Positions(s, sep) == {i \in 1..Len(s) : s[i] = sep}

\* s.split(sep)[0]
SplitFirst(s, sep) ==
    IF Positions(s, sep) = {} THEN s
    ELSE SubSeq(s, 1, (CHOOSE i \in Positions(s, sep) :
                          \A j \in Positions(s, sep) : i <= j) - 1)

\* s.split(sep): the list of the strs between the separators
RECURSIVE Split(_, _)
Split(s, sep) ==
    IF Positions(s, sep) = {} THEN <<s>>
    ELSE LET i == CHOOSE i \in Positions(s, sep) :
                      \A j \in Positions(s, sep) : i <= j
         IN  <<SubSeq(s, 1, i - 1)>> \o Split(SubSeq(s, i + 1, Len(s)), sep)

\* metrics.py:189-192: metric_agg.rsplit(':', 1), and the default when the
\* unpacking of a one-element list raises ValueError
ParseSpecFirstColon(metric_agg) ==
    IF Positions(metric_agg, ":") = {}
    THEN [metric |-> metric_agg, agg |-> DEFAULT_AGG]
    ELSE LET i == CHOOSE i \in Positions(metric_agg, ":") :
                      \A j \in Positions(metric_agg, ":") : i <= j
         IN  [metric |-> SubSeq(metric_agg, 1, i - 1),
              agg    |-> SubSeq(metric_agg, i + 1, Len(metric_agg))]

ParseSpec(metric_agg) ==
    IF Positions(metric_agg, ":") = {}
    THEN [metric |-> metric_agg, agg |-> DEFAULT_AGG]
    ELSE LET i == CHOOSE i \in Positions(metric_agg, ":") :
                      \A j \in Positions(metric_agg, ":") : j <= i
         IN  [metric |-> SubSeq(metric_agg, 1, i - 1),
              agg    |-> SubSeq(metric_agg, i + 1, Len(metric_agg))]

\* metrics.py:174-177 and cli.py:182-185
full(module, metricset, name) ==
    IF StartsWithDot(name) THEN module \o <<".">> \o metricset \o name
    ELSE name

\* one aggregation of a Search: its name, its type, its field and the
\* aggregations nested in it
AggNode(name, type, field, aggs) ==
    [name |-> name, type |-> type, field |-> field, aggs |-> aggs]

\* aggs[name] = node, on a dict kept as a tuple in insertion order
AggPut(aggs, node) ==
    IF \E i \in 1..Len(aggs) : aggs[i].name = node.name
    THEN [i \in 1..Len(aggs) |->
             IF aggs[i].name = node.name THEN node ELSE aggs[i]]
    ELSE Append(aggs, node)

\* metrics.py:188-193: the metric aggregations, all put into the same
\* (innermost) aggregation
MetricAgg(module, metricset, metric_agg) ==
    AggNode(metric_agg, ParseSpec(metric_agg).agg,
            full(module, metricset, ParseSpec(metric_agg).metric), <<>>)

RECURSIVE MetricAggs(_, _, _, _)
MetricAggs(metrics, i, module, metricset) ==
    IF i = 0 THEN <<>>
    ELSE AggPut(MetricAggs(metrics, i - 1, module, metricset),
                MetricAgg(module, metricset, metrics[i]))

\* metrics.py:185-187: one terms bucket per axis, each nested in the one
\* before it
RECURSIVE AxisAggs(_, _, _, _, _)
AxisAggs(axes, i, module, metricset, inner) ==
    IF i > Len(axes) THEN inner
    ELSE << AggNode(axes[i], <<"terms">>, full(module, metricset, axes[i]),
                    AxisAggs(axes, i + 1, module, metricset, inner)) >>

SearchFailed(exc) ==
    [status |-> exc, module |-> <<>>, metricset |-> <<>>,
     range |-> <<0, 0>>, aggs |-> <<>>, docs |-> FALSE]

\* metrics.py:110-196.  module, metricset and window are optional; end_time
\* is the reading of time.time() when it is not given
build_bucket_search(metrics, metricset, module, axes, with_docs, window, end_time) ==
    IF metrics = <<>> THEN SearchFailed("IndexError")
    ELSE
    LET metric_path == Split(SplitFirst(metrics[1], ":"), ".")
    IN  IF IsNone(metricset) /\ Len(metric_path) < 2
        THEN SearchFailed("IndexError")
        ELSE
        LET mod == IF IsNone(module) THEN metric_path[1] ELSE Get(module)
            ms  == IF IsNone(metricset) THEN metric_path[2]
                   ELSE Get(metricset)
            win == IF IsNone(window) THEN DEFAULT_WINDOW ELSE Get(window)
        IN  [status    |-> "ok",
             module    |-> mod,
             metricset |-> ms,
             range     |-> <<end_time - win, end_time>>,
             aggs      |-> AxisAggs(axes, 1, mod, ms,
                                    MetricAggs(metrics, Len(metrics), mod, ms)),
             docs      |-> with_docs]

\* the raw result tree.  The result of a terms aggregation is its buckets,
\* each with its key and the results of the nested aggregations; the result
\* of a metric aggregation is its value
RawBuckets(buckets) == [k |-> "buckets", v |-> buckets]

RawValue(value) == [k |-> "value", v |-> value]

\* aggs[name] on a raw result, a tuple of <<name, result>> pairs
HasAgg(aggs, name) == \E i \in 1..Len(aggs) : aggs[i][1] = name

AggOf(aggs, name) == aggs[CHOOSE i \in 1..Len(aggs) : aggs[i][1] = name][2]

\* the distinct values of coordinate d among rows, in order of appearance
RECURSIVE KeysAt(_, _)
KeysAt(rows, d) ==
    IF rows = <<>> THEN <<>>
    ELSE LET rest == KeysAt(SubSeq(rows, 1, Len(rows) - 1), d)
             key  == rows[Len(rows)][d]
         IN  IF \E i \in 1..Len(rest) : rest[i] = key THEN rest
             ELSE Append(rest, key)

RowsWith(rows, d, key) == SelectSeq(rows, LAMBDA r : r[d] = key)

\* cli.py:195: Search.execute() on a metrics store.  store.rows are the
\* coordinates, along the terms fields in nesting order, of the series
\* that match the filters; store.values gives the value of aggregate
\* <<field, type>> over each series (None when no document has the field)
RECURSIVE Execute(_, _, _, _)
Execute(aggs, rows, d, store) ==
    [i \in 1..Len(aggs) |->
        <<aggs[i].name,
          IF aggs[i].type = <<"terms">>
          THEN RawBuckets(
                 [j \in 1..Len(KeysAt(rows, d)) |->
                    [key  |-> KeysAt(rows, d)[j],
                     aggs |-> Execute(aggs[i].aggs,
                                      RowsWith(rows, d, KeysAt(rows, d)[j]),
                                      d + 1, store)]])
          ELSE RawValue(IF rows = <<>> THEN NoneObj
                        ELSE store.values[rows[1]][<<aggs[i].field,
                                                     aggs[i].type>>])
        >>]

TableResult(status, table) == [status |-> status, table |-> table]

\* d[key] = value on a dict kept as a tuple of pairs in insertion order
DictPut(items, key, value) ==
    IF \E i \in 1..Len(items) : items[i][1] = key
    THEN [i \in 1..Len(items) |->
             IF items[i][1] = key THEN <<key, value>> ELSE items[i]]
    ELSE Append(items, <<key, value>>)

\* metrics.py:212: the leaf dict, or KeyError when a metric is missing
RECURSIVE BrbLeaf(_, _, _), BrbLeafListed(_, _, _)
BrbLeafListed(aggs, metrics, i) ==
    IF i = 0 THEN TableResult("ok", <<>>)
    ELSE LET before == BrbLeafListed(aggs, metrics, i - 1)
         IN  IF before.status # "ok" THEN before
             ELSE IF ~HasAgg(aggs, metrics[i])
                  THEN TableResult("KeyError", <<>>)
             ELSE TableResult("ok",
                      DictPut(before.table, StrObj(metrics[i]),
                              SeqObj(<<AggOf(aggs, metrics[i]).v>>)))

BrbLeaf(aggs, metrics, i) ==
    IF i = 0 THEN TableResult("ok", <<>>)
    ELSE LET before == BrbLeaf(aggs, metrics, i - 1)
         IN  IF before.status # "ok" THEN before
             ELSE IF ~HasAgg(aggs, metrics[i])
                  THEN TableResult("KeyError", <<>>)
             ELSE TableResult("ok",
                      DictPut(before.table, StrObj(metrics[i]),
                              AggOf(aggs, metrics[i]).v))

\* metrics.py:210-217
RECURSIVE _brb(_, _, _), BrbBuckets(_, _, _, _)
_brb(aggs, remaining_axes, metrics) ==
    IF remaining_axes = <<>>
    THEN LET r == BrbLeaf(aggs, metrics, Len(metrics))
         IN  TableResult(r.status, MapObj(r.table))
    ELSE IF ~HasAgg(aggs, remaining_axes[1])
         THEN TableResult("KeyError", MapObj(<<>>))
    ELSE LET r == BrbBuckets(AggOf(aggs, remaining_axes[1]).v,
                             Len(AggOf(aggs, remaining_axes[1]).v),
                             Tail(remaining_axes), metrics)
         IN  TableResult(r.status, MapObj(r.table))

BrbBuckets(buckets, j, remaining_axes, metrics) ==
    IF j = 0 THEN TableResult("ok", <<>>)
    ELSE LET before == BrbBuckets(buckets, j - 1, remaining_axes, metrics)
         IN  IF before.status # "ok" THEN before
             ELSE LET sub == _brb(buckets[j].aggs, remaining_axes, metrics)
                  IN  IF sub.status # "ok" THEN TableResult(sub.status, <<>>)
                      ELSE TableResult("ok",
                               DictPut(before.table, buckets[j].key,
                                       sub.table))

\* metrics.py:199-219
build_result_buckets(result, metrics, axes) == _brb(result, axes, metrics)

----------------------------------------------------------------------------
(* cli.py: one leaf of main()'s loop *)

\* cli.py:21
HOST_AXES == << <<"cloud", ".", "region">>,
                <<"cloud", ".", "instance", ".", "id">> >>

\* the pieces of the names the model uses, in the order Python compares them
PieceOrder ==
    <<".", ":", "avg", "cloud", "cpu", "five", "id", "instance", "load",
      "max", "name", "norm", "pct", "pid", "process", "region", "system",
      "total">>

PieceRank(p) == CHOOSE i \in 1..Len(PieceOrder) : PieceOrder[i] = p

\* a < b on strs
RECURSIVE StrLess(_, _)
StrLess(a, b) ==
    IF b = <<>> THEN FALSE
    ELSE IF a = <<>> THEN TRUE
    ELSE IF a[1] = b[1] THEN StrLess(Tail(a), Tail(b))
    ELSE PieceRank(a[1]) < PieceRank(b[1])

\* cli.py:208: sorted() on (name, value) pairs; the names of one leaf are
\* distinct, so the values are never compared
Unsorted(items) == items

Sorted(items) == SortSeq(items, LAMBDA a, b : StrLess(a[1], b[1]))

\* zip(names, values), as the items the iterator has yet to yield
Zip(names, values) ==
    [i \in 1..(IF Len(names) < Len(values) THEN Len(names) ELSE Len(values))
        |-> <<names[i], values[i]>>]

\* what a zip iterator has yet to yield once sorted(chain(...)) at
\* cli.py:208-212 has read it to its end: nothing
Exhausted(it) == <<>>

\* cli.py:213: b64encode(sha256(json.dumps(all_items).encode()).digest()):
\* the digest of the JSON text of the list, taken as free of collisions
DedupKey(all_items) == [b64sha256 |-> all_items]

\* d.update(items)
RECURSIVE DictUpdate(_, _)
DictUpdate(d, items) ==
    IF items = <<>> THEN d
    ELSE DictUpdate(DictPut(d, items[1][1], items[1][2]), Tail(items))

\* str(o) for a str or an int
StrOf(o) == IF o.k = "str" THEN o.v ELSE <<ToString(o.v)>>

\* '/'.join(str(axis) for axis in axes)
RECURSIVE JoinSlash(_)
JoinSlash(axes) ==
    IF axes = <<>> THEN <<>>
    ELSE IF Len(axes) = 1 THEN StrOf(axes[1])
    ELSE StrOf(axes[1]) \o <<"/">> \o JoinSlash(Tail(axes))

\* tuple(metric_configs.keys())
MetricsOf(config) == [i \in 1..Len(config.metrics) |-> config.metrics[i][1]]

HasMetric(config, spec) ==
    \E i \in 1..Len(config.metrics) : config.metrics[i][1] = spec

\* metric_configs[metric_spec]
MetricConfig(config, spec) ==
    config.metrics[CHOOSE i \in 1..Len(config.metrics) :
                      config.metrics[i][1] = spec][2]

FullAll(config, names) ==
    [i \in 1..Len(names) |-> full(config.module, config.metricset, names[i])]

LeafRaised(exc) ==
    [exc |-> exc, severity |-> NoneStr, body |-> <<>>]

\* cli.py:225
DefaultMessage == "Metric out of range"

\* cli.py:206-235: the event of a leaf whose evaluation gave severity, diag
EventBody(config, k, v, severity, diag, now) ==
    LET n                    == Len(HOST_AXES)
        host_axes            == SubSeq(k, 1, n)
        metricset_axes       == SubSeq(k, n + 1, Len(k) - 1)
        full_metric_spec     == full(config.module, config.metricset,
                                     k[Len(k)].v)
        host_axes_items      == Zip(FullAll(config, HOST_AXES), host_axes)
        metricset_axes_items == Zip(FullAll(config, config.axes),
                                    metricset_axes)
        all_items            == Sorted(host_axes_items \o metricset_axes_items
                                       \o << <<full_metric_spec, NoneObj>> >>)
        key                  == DedupKey(all_items)
        message              == IF IsNone(MetricConfig(config, k[Len(k)].v).message)
                                THEN DefaultMessage
                                ELSE Get(MetricConfig(config, k[Len(k)].v).message)
        custom_details       ==
            DictPut(DictUpdate(DictUpdate(<<>>, Exhausted(host_axes_items)),
                               Exhausted(metricset_axes_items)),
                    full_metric_spec, v)
    IN  IF severity = NoneStr
        THEN [dedup_key |-> key, event_action |-> "resolve"]
        ELSE [dedup_key |-> key, event_action |-> "trigger",
              payload |->
                [summary        |-> <<message, ": ", full_metric_spec, " ", diag>>,
                 source         |-> JoinSlash(host_axes),
                 severity       |-> severity,
                 timestamp      |-> now,
                 component      |-> JoinSlash(metricset_axes),
                 class          |-> message,
                 custom_details |-> custom_details]]

\* cli.py:198-235: one pass of the loop body up to the event; exc names
\* the exception that ends main(), "" when there is none
LeafEvent(config, k, v, now) ==
    IF ~(Len(k) >= Len(HOST_AXES) + 1) THEN LeafRaised("AssertionError@198")
    ELSE IF k[Len(k)].k # "str" THEN LeafRaised("AttributeError")
    ELSE IF Len(config.axes) # Len(k) - 1 - Len(HOST_AXES)
         THEN LeafRaised("AssertionError@203")
    ELSE IF ~HasMetric(config, k[Len(k)].v) THEN LeafRaised("KeyError")
    ELSE IF v.k \notin {"num", "none"} THEN LeafRaised("TypeError")
    ELSE LET r == _check_val_against_thresh(
                      AsOptNum(v), MetricConfig(config, k[Len(k)].v))
         IN  IF r.status # "return" THEN LeafRaised(r.status)
             ELSE [exc |-> "", severity |-> r.severity,
                   body |-> EventBody(config, k, v, r.severity, r.diag, now)]

----------------------------------------------------------------------------
(* The evaluator on its own: every ladder and value within the bounds *)

OptThresh == {None} \cup {Some(n) : n \in 0..MaxThresh}

Values == {None} \cup {Some(n) : n \in (0 - 1)..(MaxThresh + 1)}

Ladders == [LevelSet -> OptThresh]

\* the CPU ladder of cli.py:28 and the value 96.2, in tenths
CpuLadder ==
    [l \in LevelSet |->
        CASE l = "info" -> Some(900) [] l = "warning" -> Some(950)
          [] l = "error" -> Some(970) [] OTHER -> Some(990)]

QueryIdle ==
    /\ q_args = <<>>
    /\ q_search = SearchFailed("pending")
    /\ q_store = <<>>
    /\ q_raw = <<>>
    /\ q_table = TableResult("pending", NoneObj)
    /\ q_pc = "idle"

MainIdle ==
    /\ CONFIGS = <<>>
    /\ m_g = 1
    /\ m_pc = "idle"
    /\ m_exc = ""
    /\ m_now = 0
    /\ m_table = NoneObj
    /\ m_leaves = <<>>
    /\ m_i = 1
    /\ m_counts = <<>>
    /\ m_sent = <<>>
    /\ m_printed = <<>>

ThreshIdle ==
    /\ t_val = None
    /\ t_cfg = [l \in LevelSet |-> None]
    /\ t_res = Raised("pending")
    /\ t_pc = "idle"

FlatIdle ==
    /\ f_obj = NoneObj
    /\ f_res = FlatResult("pending", <<>>)
    /\ f_pc = "idle"

TickIdle ==
    /\ k_start_time = 0
    /\ k_period = 1
    /\ k_ticks = 0
    /\ k_canceled = FALSE
    /\ k_time = 0
    /\ k_pc = [t \in 1..NumTasks |-> "off"]
    /\ k_wake = [t \in 1..NumTasks |-> 0]
    /\ k_out = [t \in 1..NumTasks |-> None]
    /\ k_atCancel = None

ThreshInit ==
    /\ TickIdle
    /\ FlatIdle
    /\ QueryIdle
    /\ MainIdle
    /\ \/ t_cfg \in Ladders /\ t_val \in Values
       \/ t_cfg = CpuLadder /\ t_val = Some(962)
    /\ t_res = Raised("pending")
    /\ t_pc = "call"

CheckVal ==
    /\ t_pc = "call"
    /\ t_res' = _check_val_against_thresh(t_val, t_cfg)
    /\ t_pc' = "done"
    /\ UNCHANGED <<t_val, t_cfg>>
    /\ UNCHANGED <<f_vars, q_vars, m_vars, k_vars>>

SpecThresh == ThreshInit /\ [][CheckVal]_vars

----------------------------------------------------------------------------
(* Claims about the evaluator *)

Defined(cfg) == {i \in 1..Len(Levels) : ~IsNone(cfg[Levels[i]])}

ThreshOf(cfg, i) == Get(cfg[Levels[i]])

Ascending(cfg) ==
    /\ Defined(cfg) # {}
    /\ \A i, j \in Defined(cfg) : i < j => ThreshOf(cfg, i) < ThreshOf(cfg, j)

Descending(cfg) ==
    /\ Cardinality(Defined(cfg)) >= 2
    /\ \A i, j \in Defined(cfg) : i < j => ThreshOf(cfg, i) > ThreshOf(cfg, j)

MaxOf(S) == CHOOSE i \in S : \A j \in S : j <= i

\* the levels whose threshold t satisfies t <= v
ReachedUp(cfg, v) == {i \in Defined(cfg) : ThreshOf(cfg, i) <= v}

\* the levels whose threshold t satisfies v <= t
ReachedDown(cfg, v) == {i \in Defined(cfg) : v <= ThreshOf(cfg, i)}

\* C1: on a ladder whose defined thresholds are strictly increasing (one
\* defined threshold counts as increasing) the evaluator returns (None, None)
\* for a value below the lowest defined threshold, and otherwise the most
\* severe level whose threshold t satisfies t <= v, with diagnostic "v >= t"
C1_AscendingLadder ==
    (t_pc = "done" /\ Ascending(t_cfg) /\ ~IsNone(t_val)) =>
        LET v == Get(t_val)
            S == ReachedUp(t_cfg, v)
        IN  IF S = {} THEN t_res = Returned(NoneStr, NoneStr)
            ELSE t_res = Returned(Levels[MaxOf(S)],
                                  ToString(v) \o " >= "
                                  \o ToString(ThreshOf(t_cfg, MaxOf(S))))

\* the example of the claim, in tenths: 90/95/97/99 with 96.2
C1_Witness ==
    /\ t_pc = "done"
    /\ t_cfg = CpuLadder
    /\ t_val = Some(962)
    /\ t_res = Returned("warning", "962 >= 950")

\* C2: on a ladder with at least two defined thresholds that are strictly
\* decreasing the comparison is reversed: (None, None) for a value above the
\* first defined threshold, and otherwise the most severe level whose
\* threshold t satisfies v <= t, with diagnostic "v <= t"
C2_DescendingLadder ==
    (t_pc = "done" /\ Descending(t_cfg) /\ ~IsNone(t_val)) =>
        LET v == Get(t_val)
            S == ReachedDown(t_cfg, v)
        IN  IF S = {} THEN t_res = Returned(NoneStr, NoneStr)
            ELSE t_res = Returned(Levels[MaxOf(S)],
                                  ToString(v) \o " <= "
                                  \o ToString(ThreshOf(t_cfg, MaxOf(S))))

\* a descending ladder 3 > 2 > 1 on info, warning, critical and the value 2
C2_Witness ==
    /\ t_pc = "done"
    /\ t_cfg["info"] = Some(3) /\ t_cfg["warning"] = Some(2)
    /\ t_cfg["error"] = None /\ t_cfg["critical"] = Some(1)
    /\ t_val = Some(2)
    /\ t_res = Returned("warning", "2 <= 2")

----------------------------------------------------------------------------
(* The flattener on its own: every structure within the bounds *)

\* the tuples over S of length at most n
TuplesUpTo(S, n) == UNION {[1..m -> S] : m \in 0..n}

FlatKeys == {StrObj(<<"h1">>), StrObj(<<"m1", ":", "avg">>)}

FlatScalars == {NumObj(3), NoneObj, StrObj(<<>>), StrObj(<<"a", "b">>)}

DistinctKeys(items) ==
    \A i, j \in 1..Len(items) : i # j => items[i][1] # items[j][1]

ContainersOver(S) ==
    {MapObj(items) : items \in
        {t \in TuplesUpTo(FlatKeys \X S, MaxWidth) : DistinctKeys(t)}}
    \cup {SeqObj(items) : items \in TuplesUpTo(S, MaxWidth)}

FlatObjs1 == FlatScalars \cup ContainersOver(FlatScalars)

FlatObjs == FlatScalars \cup ContainersOver(FlatObjs1)

FlatInit ==
    /\ TickIdle
    /\ ThreshIdle
    /\ QueryIdle
    /\ MainIdle
    /\ f_obj \in FlatObjs
    /\ f_res = FlatResult("pending", <<>>)
    /\ f_pc = "call"

\* list(flatten(f_obj))
Flatten ==
    /\ f_pc = "call"
    /\ f_res' = flatten(f_obj)
    /\ f_pc' = "done"
    /\ UNCHANGED f_obj
    /\ UNCHANGED <<t_vars, q_vars, m_vars, k_vars>>

SpecFlatten == FlatInit /\ [][Flatten]_vars

\* the leaves of a structure of mappings and sequences with the path to
\* each: a str, a number and None are leaves
RECURSIVE LeavesOf(_, _)
LeavesOf(pfx, o) ==
    IF o.k \in {"map", "seq"}
    THEN UNION {LeavesOf(pfx \o <<FlatItemsNoStr(o)[i][1]>>,
                         FlatItemsNoStr(o)[i][2]) : i \in 1..Len(o.v)}
    ELSE {<<pfx, o>>}

Yielded(r) == {r.out[i] : i \in 1..Len(r.out)}

\* C8: flatten ends normally on every finite structure of mappings and
\* sequences with scalar leaves (numbers, strings, None) and yields exactly
\* one (path, value) pair per leaf
C8_FlattenYieldsEveryLeaf ==
    f_pc = "done" =>
        /\ f_res.status = "ok"
        /\ Yielded(f_res) = LeavesOf(<<>>, f_obj)
        /\ Len(f_res.out) = Cardinality(LeavesOf(<<>>, f_obj))

\* the example of the claim: {"h1": {"m1:avg": 3}}
C8_Example ==
    (f_pc = "done" /\ f_obj = MapObj(<< <<StrObj(<<"h1">>),
            MapObj(<< <<StrObj(<<"m1", ":", "avg">>), NumObj(3)>> >>)>> >>))
    => f_res = FlatResult("ok",
            << << <<StrObj(<<"h1">>), StrObj(<<"m1", ":", "avg">>)>>,
                  NumObj(3)>> >>)

HasStrLeaf(o) == \E l \in LeavesOf(<<>>, o) : l[2].k = "str"

\* without str leaves the claim holds
C8_NoStrLeaves ==
    (f_pc = "done" /\ ~HasStrLeaf(f_obj)) =>
        /\ f_res.status = "ok"
        /\ Yielded(f_res) = LeavesOf(<<>>, f_obj)
        /\ Len(f_res.out) = Cardinality(LeavesOf(<<>>, f_obj))

----------------------------------------------------------------------------
(* The query builder and the tabulator on their own *)

SpecPieces == {".", ":", "used", "max"}

\* the metric specs: every str of 1..MaxSpecLen pieces, and the example
ExampleSpec == <<".", "used", ".", "pct", ":", "avg">>

MetricSpecs == (TuplesUpTo(SpecPieces, MaxSpecLen) \ {<<>>}) \cup {ExampleSpec}

\* metrics.py:100
DEFAULT_AXES == << <<"host", ".", "name">> >>

QueryAxes ==
    {<<>>, DEFAULT_AXES, << <<"cloud", ".", "instance", ".", "id">>,
                            <<".", "name">> >>}

QueryArgs ==
    {[metrics |-> metrics, metricset |-> mm[2], module |-> mm[1],
      axes |-> axes, with_docs |-> FALSE, window |-> mm[3], end_time |-> 1000] :
        metrics \in {<<m>> : m \in MetricSpecs}
                    \cup {<<m, ExampleSpec>> : m \in MetricSpecs \ {ExampleSpec}},
        mm \in {<<Some(<<"system">>), Some(<<"memory">>), Some(60)>>,
                <<None, None, None>>},
        axes \in QueryAxes}

\* the series the store may hold for a query with n terms levels
AxisKeys == {StrObj(<<"h1">>), StrObj(<<"h2">>)}

\* the coordinate tuples over the given key sets, one per terms level
Coords(keys) ==
    {c \in [1..Len(keys) -> UNION {keys[i] : i \in 1..Len(keys)}] :
        \A i \in 1..Len(keys) : c[i] \in keys[i]}

StoreRows(keys) ==
    {rows \in TuplesUpTo(Coords(keys), MaxRows) :
        \A i, j \in 1..Len(rows) : i # j => rows[i] # rows[j]}

\* the <<field, type>> pairs of the metric aggregations of a search
RECURSIVE InnerAggs(_)
InnerAggs(aggs) ==
    IF aggs # <<>> /\ aggs[1].type = <<"terms">> THEN InnerAggs(aggs[1].aggs)
    ELSE aggs

FieldAggs(search) ==
    {<<InnerAggs(search.aggs)[i].field, InnerAggs(search.aggs)[i].type>> :
        i \in 1..Len(InnerAggs(search.aggs))}

\* the fields of the nested terms buckets, outermost first
RECURSIVE TermsFields(_)
TermsFields(aggs) ==
    IF aggs # <<>> /\ aggs[1].type = <<"terms">>
    THEN <<aggs[1].field>> \o TermsFields(aggs[1].aggs) ELSE <<>>

\* what the store may hold for a search: keys gives, per terms level, the
\* values the field takes, leaves the values of an aggregate
StoresFor(search, keys, leaves) ==
    UNION {{[rows |-> rows, values |-> values] :
                values \in [{rows[i] : i \in 1..Len(rows)}
                               -> [FieldAggs(search) -> leaves]]} :
           rows \in StoreRows(keys)}

\* the values a terms field takes in the store: two of a host axis, one
\* of any other field
QueryKeysOf(field) ==
    IF field \in {<<"host", ".", "name">>,
                  <<"cloud", ".", "instance", ".", "id">>}
    THEN AxisKeys ELSE {StrObj(<<"h1">>)}

QueryKeys(search) ==
    [i \in 1..Len(TermsFields(search.aggs)) |->
        QueryKeysOf(TermsFields(search.aggs)[i])]

QueryInit ==
    /\ TickIdle
    /\ ThreshIdle
    /\ FlatIdle
    /\ MainIdle
    /\ q_args \in QueryArgs
    /\ q_search = SearchFailed("pending")
    /\ q_store = <<>>
    /\ q_raw = <<>>
    /\ q_table = TableResult("pending", NoneObj)
    /\ q_pc = "build"

QBuild ==
    /\ q_pc = "build"
    /\ q_search' = build_bucket_search(q_args.metrics, q_args.metricset,
                                       q_args.module, q_args.axes,
                                       q_args.with_docs, q_args.window,
                                       q_args.end_time)
    /\ q_pc' = IF q_search'.status = "ok" THEN "execute" ELSE "failed"
    /\ UNCHANGED <<q_args, q_store, q_raw, q_table, t_vars, f_vars, m_vars,
                 k_vars>>

\* s.using(es).execute(): the store answers from the series it holds
QExecute ==
    /\ q_pc = "execute"
    /\ \E store \in StoresFor(q_search, QueryKeys(q_search),
                                 {NumObj(0), NumObj(1)}) :
        /\ q_store' = store
        /\ q_raw' = Execute(q_search.aggs, store.rows, 1, store)
    /\ q_pc' = "tabulate"
    /\ UNCHANGED <<q_args, q_search, q_table, t_vars, f_vars, m_vars,
                 k_vars>>

QTabulate ==
    /\ q_pc = "tabulate"
    /\ q_table' = build_result_buckets(q_raw, q_args.metrics, q_args.axes)
    /\ q_pc' = IF q_table'.status = "ok" THEN "done" ELSE "failed"
    /\ UNCHANGED <<q_args, q_search, q_store, q_raw, t_vars, f_vars, m_vars,
                 k_vars>>

QueryNext == QBuild \/ QExecute \/ QTabulate

SpecQuery == QueryInit /\ [][QueryNext]_vars

----------------------------------------------------------------------------
(* Claims about the query builder and the tabulator *)

HasColon(spec) == \E i \in 1..Len(spec) : spec[i] = ":"

\* spec read as name[:agg]: the agg is what follows a colon and holds none
IsNameAgg(spec, name, agg) ==
    /\ spec = name \o <<":">> \o agg
    /\ ~HasColon(agg)

Prefixes(spec) == {SubSeq(spec, 1, n) : n \in 0..Len(spec)}

Suffixes(spec) == {SubSeq(spec, n + 1, Len(spec)) : n \in 0..Len(spec)}

NameOf(spec) ==
    IF ~HasColon(spec) THEN spec
    ELSE CHOOSE name \in Prefixes(spec) :
            \E agg \in Suffixes(spec) : IsNameAgg(spec, name, agg)

AggFnOf(spec) ==
    IF ~HasColon(spec) THEN <<"avg">>
    ELSE CHOOSE agg \in Suffixes(spec) :
            \E name \in Prefixes(spec) : IsNameAgg(spec, name, agg)

FieldOf(module, metricset, name) ==
    IF name # <<>> /\ Head(name) = "."
    THEN module \o <<".">> \o metricset \o name
    ELSE name

\* the aggregations nested under n levels of single terms buckets
RECURSIVE AggsAtDepth(_, _)
AggsAtDepth(aggs, n) ==
    IF n = 0 THEN aggs
    ELSE IF Len(aggs) = 1 /\ aggs[1].type = <<"terms">>
         THEN AggsAtDepth(aggs[1].aggs, n - 1)
         ELSE <<>>

\* the items of the mapping reached from table along the keys of row
RECURSIVE TableAt(_, _)
TableAt(table, row) ==
    IF row = <<>> THEN table
    ELSE LET hits == {i \in 1..Len(table.v) : table.v[i][1] = row[1]}
         IN  IF table.k # "map" \/ hits = {} THEN NoneObj
             ELSE TableAt(table.v[CHOOSE i \in hits : TRUE][2], Tail(row))

QGiven == q_pc # "idle" /\ ~IsNone(q_args.module) /\ ~IsNone(q_args.metricset)

QMetricSet == {q_args.metrics[i] : i \in 1..Len(q_args.metrics)}

QInner == AggsAtDepth(q_search.aggs, Len(q_args.axes))

\* C10: with a module and a metricset given, each metric spec name[:agg]
\* becomes one innermost aggregation named by the unmodified spec, on the
\* field module.metricset+name when name begins with '.' and on name
\* otherwise, with the function agg (avg when omitted); the tabulator, given
\* the raw tree of that search, returns leaf mappings keyed by exactly the
\* specs, each with the store's value of that aggregate
C10_RoundTrip ==
    QGiven =>
      /\ q_pc # "failed"
      /\ q_pc \in {"execute", "tabulate", "done"} =>
           /\ Len(QInner) = Cardinality(QMetricSet)
           /\ \A m \in QMetricSet :
                \E i \in 1..Len(QInner) :
                    /\ QInner[i].name = m
                    /\ QInner[i].field = FieldOf(Get(q_args.module),
                                                 Get(q_args.metricset),
                                                 NameOf(m))
                    /\ QInner[i].type = AggFnOf(m)
      /\ q_pc = "done" =>
           \A r \in 1..Len(q_store.rows) :
              LET leaf == TableAt(q_table.table, q_store.rows[r])
              IN  /\ leaf.k = "map"
                  /\ {leaf.v[i][1] : i \in 1..Len(leaf.v)}
                        = {StrObj(m) : m \in QMetricSet}
                  /\ Len(leaf.v) = Cardinality(QMetricSet)
                  /\ \A i \in 1..Len(leaf.v) :
                        leaf.v[i][2] =
                          q_store.values[q_store.rows[r]][
                            <<FieldOf(Get(q_args.module),
                                      Get(q_args.metricset),
                                      NameOf(leaf.v[i][1].v)),
                              AggFnOf(leaf.v[i][1].v)>>]

\* ".used.pct:avg" with system/memory queries system.memory.used.pct with
\* avg and its value comes back under the key ".used.pct:avg"
C10_Witness ==
    /\ q_pc = "done"
    /\ q_args.metrics = <<ExampleSpec>>
    /\ q_args.module = Some(<<"system">>)
    /\ q_args.metricset = Some(<<"memory">>)
    /\ q_args.axes = DEFAULT_AXES
    /\ QInner = << AggNode(ExampleSpec, <<"avg">>,
                           <<"system", ".", "memory", ".", "used", ".", "pct">>,
                           <<>>) >>
    /\ q_store.rows = << <<StrObj(<<"h1">>)>> >>
    /\ q_table.table =
         MapObj(<< <<StrObj(<<"h1">>),
                     MapObj(<< <<StrObj(ExampleSpec), NumObj(1)>> >>)>> >>)

----------------------------------------------------------------------------
(* main(): the polling cycle *)

Ladder(info, warning, error, critical, message) ==
    [info |-> info, warning |-> warning, error |-> error,
     critical |-> critical, message |-> message]

Group(module, metricset, axes, metrics, window) ==
    [module |-> module, metricset |-> metricset, axes |-> axes,
     metrics |-> metrics, window |-> window]

AscLadder ==
    Ladder(Some(1), Some(2), Some(3), Some(4), Some("High CPU percentage"))

LowLadder ==
    Ladder(Some(0), Some(1), Some(2), Some(3), Some("High CPU (5 minutes)"))

DescLadder == Ladder(Some(3), None, Some(1), None, None)

\* neither strictly increasing nor strictly decreasing
BadLadder == Ladder(Some(1), Some(3), Some(2), None, Some("High load"))

CpuSpec == <<".", "total", ".", "pct", ":", "avg">>

ProcSpec == <<".", "cpu", ".", "total", ".", "pct">>

\* like the CPU groups of cli.py:24-53: one metric, no axes of its own
GCpu == Group(<<"system">>, <<"cpu">>, <<>>, << <<CpuSpec, AscLadder>> >>, 60)

GCpu5 == Group(<<"system">>, <<"cpu">>, <<>>, << <<CpuSpec, LowLadder>> >>, 300)

\* like the process group of cli.py:112-122, with the axes in two orders
GProc ==
    Group(<<"system">>, <<"process">>, << <<".", "pid">>, <<".", "name">> >>,
          << <<ProcSpec, DescLadder>> >>, 60)

GProcSwapped ==
    Group(<<"system">>, <<"process">>, << <<".", "name">>, <<".", "pid">> >>,
          << <<ProcSpec, AscLadder>> >>, 300)

\* like the load group of cli.py:54-71, the second ladder out of order
GLoadBad ==
    Group(<<"system">>, <<"load">>, <<>>,
          << << <<".", "norm", ":", "max">>, AscLadder>>,
             << <<".", "norm", ".", "five", ":", "max">>, BadLadder>> >>, 60)

\* the lists of metric groups main() is run on
ConfigLists ==
    {<<GCpu>>, <<GCpu, GCpu5>>, <<GCpu, GCpu>>, <<GProc, GProcSwapped>>,
     <<GLoadBad>>, <<GLoadBad, GCpu>>, <<GCpu, GLoadBad>>}

\* the values the store holds for a terms field
MainKeysOf(field) ==
    IF field = <<"cloud", ".", "region">> THEN {StrObj(<<"r1">>)}
    ELSE IF field = <<"cloud", ".", "instance", ".", "id">>
         THEN {StrObj(<<"i1">>), StrObj(<<"i2">>)}
    ELSE IF field = <<"system", ".", "process", ".", "pid">> THEN {NumObj(7)}
    ELSE {StrObj(<<"init">>)}

MainKeys(search) ==
    [i \in 1..Len(TermsFields(search.aggs)) |->
        MainKeysOf(TermsFields(search.aggs)[i])]

\* the values of an aggregate: below every threshold, across some, and
\* None (no document of the bucket has the field)
MainLeaves == {NumObj(0), NumObj(2), NoneObj}

MainInit ==
    /\ TickIdle
    /\ ThreshIdle
    /\ FlatIdle
    /\ QueryIdle
    /\ CONFIGS \in ConfigLists
    /\ m_g = 1
    /\ m_pc = "query"
    /\ m_exc = ""
    /\ m_now = 0
    /\ m_table = NoneObj
    /\ m_leaves = <<>>
    /\ m_i = 1
    /\ m_counts = <<>>
    /\ m_sent = <<>>
    /\ m_printed = <<>>

\* the for statements of cli.py:179 and cli.py:197 move on: to the next
\* leaf, or past the last leaf to the next group, or past the last group to
\* the return
MoveOn(leaves, i, g) ==
    IF i <= Len(leaves) THEN [pc |-> "leaf", g |-> g]
    ELSE IF g < Len(CONFIGS) THEN [pc |-> "query", g |-> g + 1]
    ELSE [pc |-> "done", g |-> g + 1]

\* cli.py:179-197: the query of the group at hand, its execution on the
\* store, the tabulation, and the start of the loop over the leaves
MQuery ==
    /\ m_pc = "query"
    /\ LET config    == CONFIGS[m_g]
           full_axes == HOST_AXES \o config.axes
           metrics   == MetricsOf(config)
           q == build_bucket_search(metrics, Some(config.metricset),
                                    Some(config.module), full_axes, FALSE,
                                    Some(config.window), m_now + 1)
       IN  /\ m_now' = m_now + 1
           /\ IF q.status # "ok"
              THEN /\ m_pc' = "crashed"
                   /\ m_exc' = q.status
                   /\ UNCHANGED <<m_g, m_table, m_leaves, m_i, m_counts>>
              ELSE \E store \in StoresFor(q, MainKeys(q), MainLeaves) :
                     LET r == Execute(q.aggs, store.rows, 1, store)
                         t == build_result_buckets(r, metrics, full_axes)
                         f == flatten(t.table)
                     IN  IF t.status # "ok"
                         THEN /\ m_pc' = "crashed"
                              /\ m_exc' = t.status
                              /\ UNCHANGED <<m_g, m_table, m_leaves, m_i,
                                             m_counts>>
                         ELSE /\ m_table' = t.table
                              /\ m_leaves' = f.out
                              /\ m_i' = 1
                              /\ m_counts' = Append(m_counts, Len(f.out))
                              /\ m_pc' = MoveOn(f.out, 1, m_g).pc
                              /\ m_g' = MoveOn(f.out, 1, m_g).g
                              /\ m_exc' = ""
    /\ UNCHANGED <<CONFIGS, m_sent, m_printed, t_vars, f_vars, q_vars,
                 k_vars>>

\* how a call of requests.post ends: a success status, a failure status
\* (raise_for_status raises and the except clause prints the response), or
\* an exception of the call itself
PostOutcomes == {"ok", "http_error", "exception"}

\* cli.py:197-243: one pass of the loop body
MLeaf ==
    /\ m_pc = "leaf"
    /\ LET config == CONFIGS[m_g]
           k      == m_leaves[m_i][1]
           v      == m_leaves[m_i][2]
           e      == LeafEvent(config, k, v, m_now)
       IN  IF e.exc # ""
           THEN /\ m_pc' = "crashed"
                /\ m_exc' = e.exc
                /\ UNCHANGED <<m_g, m_i, m_sent, m_printed>>
           ELSE \E outcome \in PostOutcomes :
                  /\ m_sent' = Append(m_sent,
                                 [g |-> m_g, i |-> m_i, k |-> k, v |-> v,
                                  severity |-> e.severity, body |-> e.body,
                                  outcome |-> outcome])
                  /\ m_printed' = IF outcome = "http_error"
                                  THEN Append(m_printed, Len(m_sent) + 1)
                                  ELSE m_printed
                  /\ IF outcome = "exception"
                     THEN /\ m_pc' = "crashed"
                          /\ m_exc' = "ConnectionError"
                          /\ UNCHANGED <<m_g, m_i>>
                     ELSE /\ m_i' = m_i + 1
                          /\ m_pc' = MoveOn(m_leaves, m_i + 1, m_g).pc
                          /\ m_g' = MoveOn(m_leaves, m_i + 1, m_g).g
                          /\ m_exc' = ""
    /\ UNCHANGED <<CONFIGS, m_now, m_table, m_leaves, m_counts,
                   t_vars, f_vars, q_vars, k_vars>>

Next == MQuery \/ MLeaf

Spec == MainInit /\ [][Next]_vars

----------------------------------------------------------------------------
(* Claims about the polling cycle *)

Terminated == m_pc \in {"done", "crashed"}

\* the calls of requests.post made for leaf i of group g
SentFor(g, i) == {n \in 1..Len(m_sent) : m_sent[n].g = g /\ m_sent[n].i = i}

IsResolve(body) ==
    /\ DOMAIN body = {"dedup_key", "event_action"}
    /\ body.event_action = "resolve"

IsTrigger(body, severity) ==
    /\ DOMAIN body = {"dedup_key", "event_action", "payload"}
    /\ body.event_action = "trigger"
    /\ body.payload.severity = severity

\* the shape of every event posted: resolve without payload when the
\* evaluation gave no severity, trigger with that severity otherwise
EventShapes ==
    \A n \in 1..Len(m_sent) :
        IF m_sent[n].severity = NoneStr THEN IsResolve(m_sent[n].body)
        ELSE IsTrigger(m_sent[n].body, m_sent[n].severity)

\* C3: in a polling cycle every leaf of every group's flattened result has
\* exactly one event posted, a resolve event with dedup_key and event_action
\* only when the evaluation gives no severity, a trigger event carrying the
\* severity otherwise
C3_OneEventPerLeaf ==
    /\ EventShapes
    /\ \A g \in 1..Len(m_counts) : \A i \in 1..m_counts[g] :
          Cardinality(SentFor(g, i)) <= 1
    /\ Terminated =>
          /\ Len(m_counts) = Len(CONFIGS)
          /\ \A g \in 1..Len(m_counts) : \A i \in 1..m_counts[g] :
                Cardinality(SentFor(g, i)) = 1

\* what the code does keep: a cycle that returns has posted exactly one
\* event per leaf, each of the right shape
C3_WhenReturned ==
    /\ EventShapes
    /\ m_pc = "done" =>
          /\ Len(m_counts) = Len(CONFIGS)
          /\ \A g \in 1..Len(m_counts) : \A i \in 1..m_counts[g] :
                Cardinality(SentFor(g, i)) = 1

\* the axis name/value pairs of a posted leaf, names fully qualified
FullAxesOf(config) == HOST_AXES \o config.axes

AxisPairs(e) ==
    LET config == CONFIGS[e.g]
    IN  {<<FieldOf(config.module, config.metricset, FullAxesOf(config)[j]),
           e.k[j]>> : j \in 1..Len(FullAxesOf(config))}

FullMetricOf(e) ==
    FieldOf(CONFIGS[e.g].module, CONFIGS[e.g].metricset, e.k[Len(e.k)].v)

DetailsOf(body) ==
    {body.payload.custom_details[j] :
        j \in 1..Len(body.payload.custom_details)}

\* C4: in every trigger event custom_details holds every host-axis and
\* metricset-axis name/value pair of the leaf and the entry of the metric
C4_CustomDetails ==
    \A n \in 1..Len(m_sent) :
        m_sent[n].body.event_action = "trigger" =>
            /\ AxisPairs(m_sent[n]) \subseteq DetailsOf(m_sent[n].body)
            /\ <<FullMetricOf(m_sent[n]), m_sent[n].v>>
                  \in DetailsOf(m_sent[n].body)

\* what the code does keep: the entry of the metric
C4_MetricEntryOnly ==
    \A n \in 1..Len(m_sent) :
        m_sent[n].body.event_action = "trigger" =>
            DetailsOf(m_sent[n].body)
                = {<<FullMetricOf(m_sent[n]), m_sent[n].v>>}

\* C5: two leaves with the same axis name/value pairs and the same
\* fully-qualified metric name get the same dedup key, whatever the order
\* of the pairs, the value, the severity and the group
C5_DedupKeyFunctionOfPairs ==
    \A n1, n2 \in 1..Len(m_sent) :
        (/\ AxisPairs(m_sent[n1]) = AxisPairs(m_sent[n2])
         /\ FullMetricOf(m_sent[n1]) = FullMetricOf(m_sent[n2]))
        => m_sent[n1].body.dedup_key = m_sent[n2].body.dedup_key

\* two groups that give the axes in different orders post the same pairs,
\* with different values and severities, under one key
C5_Witness ==
    \E n1, n2 \in 1..Len(m_sent) :
        /\ CONFIGS[m_sent[n1].g].axes # CONFIGS[m_sent[n2].g].axes
        /\ CONFIGS[m_sent[n1].g].window # CONFIGS[m_sent[n2].g].window
        /\ AxisPairs(m_sent[n1]) = AxisPairs(m_sent[n2])
        /\ FullMetricOf(m_sent[n1]) = FullMetricOf(m_sent[n2])
        /\ m_sent[n1].v # m_sent[n2].v
        /\ m_sent[n1].severity # m_sent[n2].severity
        /\ m_sent[n1].body.dedup_key = m_sent[n2].body.dedup_key

\* leaves of the group at hand, or groups, that main() has yet to reach
Remaining == m_i < Len(m_leaves) \/ m_g < Len(CONFIGS)

\* C6: a delivery failure, be it an exception of the call or a failure
\* status, is reported and does not abort the cycle: the remaining leaves
\* of the group and of the later groups are not left without their events
C6_DeliveryFailureSurvived ==
    \A n \in 1..Len(m_sent) :
        /\ m_sent[n].outcome = "http_error" =>
              \E j \in 1..Len(m_printed) : m_printed[j] = n
        /\ m_sent[n].outcome = "exception" => ~(m_pc = "crashed" /\ Remaining)

\* what the code does keep: a failure status is printed and the loop goes on
C6_FailureStatusSurvived ==
    \A n \in 1..Len(m_sent) :
        m_sent[n].outcome = "http_error" =>
            /\ \E j \in 1..Len(m_printed) : m_printed[j] = n
            /\ (m_pc = "crashed" => m_exc # "HTTPError")

\* a ladder that is neither strictly increasing nor strictly decreasing
OutOfOrder(cfg) ==
    /\ \E i, j \in Defined(cfg) :
          i < j /\ ThreshOf(cfg, i) >= ThreshOf(cfg, j)
    /\ \E i, j \in Defined(cfg) :
          i < j /\ ThreshOf(cfg, i) <= ThreshOf(cfg, j)

HasBadLadder(config) ==
    \E i \in 1..Len(config.metrics) : OutOfOrder(config.metrics[i][2])

\* C7: a group with an out-of-order ladder is rejected before any event of
\* the group is posted: no event is delivered for it, and the cycle does
\* not pass it without the failure (even when the query returns no leaf of
\* the faulty metric)
C7_BadLadderRejectedEagerly ==
    \A g \in 1..Len(CONFIGS) :
        HasBadLadder(CONFIGS[g]) =>
            /\ \A n \in 1..Len(m_sent) : m_sent[n].g # g
            /\ ~(m_g > g /\ m_pc # "crashed")

\* whether every path from the root of table has n keys and then reaches a
\* mapping from the metric specs to scalar values
RECURSIVE DepthIs(_, _, _)
DepthIs(table, n, specs) ==
    /\ table.k = "map"
    /\ IF n = 0
       THEN /\ {table.v[i][1] : i \in 1..Len(table.v)} = specs
            /\ \A i \in 1..Len(table.v) : table.v[i][2].k \in {"num", "none"}
       ELSE \A i \in 1..Len(table.v) : DepthIs(table.v[i][2], n - 1, specs)

\* the group whose result m_table and m_leaves hold
TableGroup == CONFIGS[Len(m_counts)]

\* C9: the tabulated result is nested as deep as there are axes, with the
\* leaf mappings keyed by the metric specs below; every path flatten yields
\* has one component more than there are axes, and the assertions of main()
\* on the path length never fail
C9_TableDepth ==
    /\ m_exc \notin {"AssertionError@198", "AssertionError@203"}
    /\ m_counts # <<>> =>
          /\ DepthIs(m_table, Len(FullAxesOf(TableGroup)),
                     {StrObj(m) : m \in
                        {MetricsOf(TableGroup)[i] :
                            i \in 1..Len(MetricsOf(TableGroup))}})
          /\ \A i \in 1..Len(m_leaves) :
                Len(m_leaves[i][1]) = Len(FullAxesOf(TableGroup)) + 1

\* a group with two axes of its own, two series, both leaves past the
\* assertions
C9_Witness ==
    /\ m_counts # <<>>
    /\ Len(TableGroup.axes) = 2
    /\ Len(m_leaves) = 2
    /\ \A i \in 1..2 : SentFor(Len(m_counts), i) # {}

----------------------------------------------------------------------------
(* The Ticker.  The tasks run on one event loop: a task runs from one       *)
(* await to the next without interruption, so cancel() and the other       *)
(* tasks act only while an __anext__ is suspended in asyncio.sleep.        *)

Tasks == 1..NumTasks

\* the ways an __anext__ ends: a tick served, or an exception
Ended(kind, value, afterCancel, slept) ==
    [kind |-> kind, value |-> value, afterCancel |-> afterCancel,
     slept |-> slept]

\* Ticker.next_tick: None if canceled
next_tick ==
    IF k_canceled THEN None
    ELSE Some(k_start_time + k_ticks * k_period)

\* Ticker.last_tick: None if no tick was served yet
last_tick ==
    IF k_ticks = 0 THEN None
    ELSE Some(k_start_time + (k_ticks - 1) * k_period)

\* Ticker.last_tick once __ticks has been incremented
LastTickAfterServing == Some(k_start_time + k_ticks * k_period)

\* "now < self.next_tick" raises TypeError when next_tick is None
CompareRaises == IsNone(next_tick)

\* the loop of __anext__ from the reading of the clock on: the comparison
\* with next_tick, then the sleep or the serving of the tick
AnextLoop(t, slept) ==
    LET now == k_time IN
    IF CompareRaises
    THEN /\ k_out' = [k_out EXCEPT ![t] =
                         Some(Ended("TypeError", None, k_canceled, slept))]
         /\ k_pc' = [k_pc EXCEPT ![t] = "idle"]
         /\ UNCHANGED <<k_ticks, k_wake>>
    ELSE IF now < Get(next_tick)
    THEN /\ k_pc' = [k_pc EXCEPT ![t] = "sleep"]
         /\ k_wake' = [k_wake EXCEPT ![t] = now + (Get(next_tick) - now)]
         /\ UNCHANGED <<k_ticks, k_out>>
    ELSE /\ k_ticks' = k_ticks + 1
         /\ k_out' = [k_out EXCEPT ![t] =
                         Some(Ended("tick", LastTickAfterServing,
                                    k_canceled, slept))]
         /\ k_pc' = [k_pc EXCEPT ![t] = "idle"]
         /\ UNCHANGED k_wake

\* Ticker.cancel
cancel ==
    /\ k_canceled' = TRUE
    /\ k_atCancel' = IF IsNone(k_atCancel) THEN Some(k_ticks) ELSE k_atCancel
    /\ UNCHANGED <<k_start_time, k_period, k_ticks, k_time, k_pc, k_wake,
                   k_out>>
    /\ UNCHANGED <<t_vars, f_vars, q_vars, m_vars>>

\* Ticker.__anext__, from the call to the first sleep or to the end
Anext(t) ==
    /\ k_pc[t] = "idle"
    /\ IF k_canceled
       THEN /\ k_out' = [k_out EXCEPT ![t] =
                            Some(Ended("StopAsyncIteration", None, TRUE,
                                       FALSE))]
            /\ UNCHANGED <<k_ticks, k_pc, k_wake>>
       ELSE AnextLoop(t, FALSE)
    /\ UNCHANGED <<k_start_time, k_period, k_canceled, k_time, k_atCancel>>
    /\ UNCHANGED <<t_vars, f_vars, q_vars, m_vars>>

\* Ticker.__anext__, from the end of a sleep to the next sleep or to the end
AnextResume(t) ==
    /\ k_pc[t] = "sleep"
    /\ k_time >= k_wake[t]
    /\ AnextLoop(t, TRUE)
    /\ UNCHANGED <<k_start_time, k_period, k_canceled, k_time, k_atCancel>>
    /\ UNCHANGED <<t_vars, f_vars, q_vars, m_vars>>

\* the event loop's clock moves on
TimePasses ==
    /\ k_time < MaxTime
    /\ k_time' = k_time + 1
    /\ UNCHANGED <<k_start_time, k_period, k_ticks, k_canceled, k_pc, k_wake,
                   k_out, k_atCancel>>
    /\ UNCHANGED <<t_vars, f_vars, q_vars, m_vars>>

\* Ticker.__init__, with the start time and the period drawn
TickerInit ==
    /\ ThreshIdle
    /\ FlatIdle
    /\ QueryIdle
    /\ MainIdle
    /\ k_start_time \in 0..1
    /\ k_period \in 1..2
    /\ k_ticks = 0
    /\ k_canceled = FALSE
    /\ k_time = 0
    /\ k_pc = [t \in Tasks |-> "idle"]
    /\ k_wake = [t \in Tasks |-> 0]
    /\ k_out = [t \in Tasks |-> None]
    /\ k_atCancel = None

TickerNext ==
    \/ cancel
    \/ TimePasses
    \/ \E t \in Tasks : Anext(t)
    \/ \E t \in Tasks : AnextResume(t)

SpecTicker == TickerInit /\ [][TickerNext]_vars

----------------------------------------------------------------------------
(* Claim about the Ticker *)

\* an __anext__ of task t has ended after cancel() ran
EndedAfterCancel(t) == k_out[t] # None /\ Get(k_out[t]).afterCancel

\* after cancel(), no tick is served any more
NoTickAfterCancel ==
    k_canceled =>
        /\ k_ticks = Get(k_atCancel)
        /\ IsNone(next_tick)
        /\ \A t \in Tasks :
              EndedAfterCancel(t) => Get(k_out[t]).kind # "tick"

\* C11: after cancel() has run, no further tick is served (ticks does not
\* increase and next_tick is None), and every __anext__ that ends after it
\* ends with StopAsyncIteration: the one started after the cancel and the
\* one that was suspended in its sleep when cancel() ran
C11_CancelEndsIteration ==
    /\ NoTickAfterCancel
    /\ \A t \in Tasks :
          EndedAfterCancel(t) => Get(k_out[t]).kind = "StopAsyncIteration"

\* what the code does keep: no tick after cancel(), and an __anext__ started
\* after cancel() ends with StopAsyncIteration
C11_StartedAfterCancelStops ==
    /\ NoTickAfterCancel
    /\ \A t \in Tasks :
          (EndedAfterCancel(t) /\ ~Get(k_out[t]).slept)
              => Get(k_out[t]).kind = "StopAsyncIteration"

\* what the code does to an __anext__ suspended in its sleep when cancel()
\* ran: the comparison of now with next_tick = None raises TypeError
C11_SuspendedRaisesTypeError ==
    \A t \in Tasks :
        (EndedAfterCancel(t) /\ Get(k_out[t]).slept)
            => Get(k_out[t]).kind = "TypeError"

\* both cases have happened: one task's __anext__ was suspended when
\* cancel() ran and has ended, another's was started after it
C11_BothCases ==
    \E t, u \in Tasks :
        /\ EndedAfterCancel(t) /\ Get(k_out[t]).slept
        /\ EndedAfterCancel(u) /\ ~Get(k_out[u]).slept

====
